---- MODULE Spec2Model ----
(***************************************************************************)
(* Validator configuration resolution of sawtooth_validator/config/        *)
(* validator.py: the TOML field extractor (load_toml_validator_config),    *)
(* the precedence merger (merge_validator_config), the policy compiler     *)
(* (parse_permissions) and the ValidatorConfig value object.               *)
(*                                                                         *)
(* Text is modelled as a sequence of lexical atoms (a keyword, an          *)
(* identifier, or one separator character such as " " or ":"), so that     *)
(* splitting, searching and slicing are computed and not assumed.          *)
(* Python values are tagged records: None, str, bytes, list and dict.      *)
(***************************************************************************)
EXTENDS Naturals, Integers, Sequences, FiniteSets, TLC

VARIABLES
    configs,        \* merge_validator_config: the list of snapshots passed in
    merged,         \* merge_validator_config: the snapshot returned (NotRun before)
    config_file,    \* the primary config file: [state, tree]
    policy_dir,     \* the policy directory: file name -> Missing or its text lines
    loaded,         \* load_toml_validator_config: its outcome (NotRun before)
    reloaded,       \* outcome of serialising `loaded` and extracting it again
    permissions_in, \* parse_permissions: its argument
    compiled        \* parse_permissions: its outcome (NotRun before)

vars == <<configs, merged, config_file, policy_dir, loaded, reloaded,
          permissions_in, compiled>>

(***************************************************************************)
(* Bounds of the model.                                                    *)
(***************************************************************************)
MaxConfigs == 3     \* longest list handed to merge_validator_config
MaxLines == 2       \* most lines in a policy file
MaxLineLen == 4     \* most atoms in a line of a policy file
MaxKeys == 3        \* most top-level keys in the config file
MaxBinds == 2       \* most entries in the "bind" sequence

(***************************************************************************)
(* Python values.                                                          *)
(***************************************************************************)
None == [t |-> "none"]
Str(s) == [t |-> "str", v |-> s]
Bytes(s) == [t |-> "bytes", v |-> s]
List(s) == [t |-> "list", v |-> s]
Map(m) == [t |-> "map", v |-> m]
EmptyMap == Map(<<>>)

NotRun == [status |-> "not_run"]
Returned(c) == [status |-> "ok", config |-> c]
Raised(kind, msg) == [status |-> "error", error |-> kind, message |-> msg]
Result(v) == [status |-> "ok", value |-> v]

(***************************************************************************)
(* class ValidatorConfig                                                   *)
(***************************************************************************)
Fields ==
    <<"bind_network", "bind_component", "endpoint", "peering", "seeds",
      "peers", "network_public_key", "network_private_key", "scheduler",
      "permissions", "roles", "opentsdb_url", "opentsdb_db">>

FieldSet == {Fields[i] : i \in 1..Len(Fields)}

\* ValidatorConfig(**given): every field not given is None.
ValidatorConfig(given) ==
    [f \in FieldSet |-> IF f \in DOMAIN given THEN given[f] ELSE None]

load_default_validator_config ==
    ValidatorConfig(
        [bind_network |-> Str(<<"tcp", ":", "//127.0.0.1", ":", "8800">>),
         bind_component |-> Str(<<"tcp", ":", "//127.0.0.1", ":", "4004">>),
         endpoint |-> None,
         peering |-> Str(<<"static">>),
         scheduler |-> Str(<<"serial">>)])

(***************************************************************************)
(* merge_validator_config                                                  *)
(***************************************************************************)
reversed(s) == [i \in 1..Len(s) |-> s[Len(s) + 1 - i]]

\* Variant: reversed(configs[:-1]), a scan that leaves out the last snapshot.
reversed_skipping_last(s) ==
    [i \in 1..(IF Len(s) = 0 THEN 0 ELSE Len(s) - 1) |-> s[Len(s) - i]]

\* Variant: a scan in list order.
forward(s) == s

\* line 120: the order in which the loop visits the snapshots
MergeOrder(cfgs) == reversed(cfgs)

\* Variant: `if config.permissions:`, which takes {} for unset.
OverwritesWhenTruthy(f, value) ==
    IF f = "permissions"
    THEN value # None /\ value # EmptyMap
    ELSE value # None

\* lines 121-146: the condition under which the loop overwrites field f
Overwrites(f, value) ==
    IF f = "permissions"
    THEN value # None \/ value = EmptyMap
    ELSE value # None

\* lines 121-146: one iteration of the loop
MergeStep(acc, config) ==
    [f \in FieldSet |-> IF Overwrites(f, config[f]) THEN config[f] ELSE acc[f]]

RECURSIVE MergeLoop(_, _)
MergeLoop(order, acc) ==
    IF order = <<>> THEN acc
    ELSE MergeLoop(Tail(order), MergeStep(acc, Head(order)))

merge_validator_config(cfgs) ==
    ValidatorConfig(MergeLoop(MergeOrder(cfgs), [f \in FieldSet |-> None]))

(***************************************************************************)
(* parse_permissions                                                       *)
(***************************************************************************)
Entry(type, key) == [type |-> type, key |-> key]
Policy(name, entries) == [name |-> name, entries |-> entries]

\* A file of the policy directory: absent, or the lines read() and
\* splitlines() give for it.
MissingFile == [exists |-> FALSE, lines |-> <<>>]
PolicyFile(lines) == [exists |-> TRUE, lines |-> lines]

\* os.path.exists / open on a name of the policy directory.
FileOf(dir, name) == IF name \in DOMAIN dir THEN dir[name] ELSE MissingFile

\* The positions of the separator sep in text s.
Positions(s, sep) == {i \in 1..Len(s) : s[i] = sep}

Lowest(S) == CHOOSE i \in S : \A j \in S : i <= j

\* str.split(sep): the pieces between single occurrences of sep; a text
\* without sep (the empty text included) is one piece.
RECURSIVE split(_, _)
split(s, sep) ==
    IF Positions(s, sep) = {} THEN <<s>>
    ELSE LET i == Lowest(Positions(s, sep))
         IN <<SubSeq(s, 1, i - 1)>> \o split(SubSeq(s, i + 1, Len(s)), sep)

\* lines 183 and 187: rule[1]; Python raises IndexError when the split gave
\* one piece only.
SecondPiece(rule) ==
    IF Len(rule) >= 2 THEN [ok |-> TRUE, key |-> rule[2]]
    ELSE [ok |-> FALSE, key |-> <<>>]

\* lines 179-188: the loop over the lines of one file; ok is FALSE when an
\* iteration raised IndexError.
RECURSIVE CompileRules(_, _)
CompileRules(rules, entries) ==
    IF rules = <<>> THEN [ok |-> TRUE, entries |-> entries]
    ELSE LET rule == split(Head(rules), " ")
         IN IF rule[1] \in {<<"PERMIT_KEY">>, <<"DENY_KEY">>}
            THEN IF SecondPiece(rule).ok
                 THEN CompileRules(Tail(rules),
                        Append(entries,
                               Entry(rule[1][1], SecondPiece(rule).key)))
                 ELSE [ok |-> FALSE, entries |-> entries]
            ELSE CompileRules(Tail(rules), entries)

\* lines 170-195: the loop over the roles of the permissions table.  roles is
\* the dict built so far; the outcome is ok = FALSE when an iteration raised.
RECURSIVE RolesLoop(_, _, _, _)
RolesLoop(todo, permissions, dir, roles) ==
    IF todo = {} THEN [ok |-> TRUE, roles |-> roles]
    ELSE LET role_name == CHOOSE r \in todo : TRUE
             policy_name == permissions[role_name]
             rest == todo \ {role_name}
         IN IF FileOf(dir, policy_name).exists
            THEN LET c == CompileRules(FileOf(dir, policy_name).lines, <<>>)
                 IN IF c.ok
                    THEN RolesLoop(rest, permissions, dir,
                            [r \in DOMAIN roles \cup {role_name} |->
                                IF r = role_name
                                THEN Policy(policy_name, c.entries)
                                ELSE roles[r]])
                    ELSE [ok |-> FALSE, roles |-> roles]
            ELSE RolesLoop(rest, permissions, dir, roles)

parse_permissions(permissions, dir) ==
    LET done == IF permissions # None
                THEN RolesLoop(DOMAIN permissions.v, permissions.v, dir, <<>>)
                ELSE [ok |-> TRUE, roles |-> <<>>]
    IN IF ~done.ok THEN Raised("IndexError", <<>>)
       ELSE IF DOMAIN done.roles = {} THEN Result(None)
       ELSE Result(Map(done.roles))

(***************************************************************************)
(* load_toml_validator_config                                              *)
(***************************************************************************)
\* Variant: the whitelist without its last key.
WhitelistWithoutRoles ==
    {"bind", "endpoint", "peering", "seeds", "peers", "network_public_key",
     "network_private_key", "scheduler", "permissions"}

\* lines 60-61: the recognised top-level keys
Whitelist ==
    {"bind", "endpoint", "peering", "seeds", "peers", "network_public_key",
     "network_private_key", "scheduler", "permissions", "roles"}

\* Every key name the model writes to a config file, in the order Python
\* sorts strings.
KeyOrder ==
    <<"bind", "bind_component", "bind_network", "endpoint",
      "network_private_key", "network_public_key", "opentsdb_db",
      "opentsdb_url", "peering", "peers", "permissions", "roles",
      "scheduler", "seeds">>

InSet(S) == [k \in {KeyOrder[i] : i \in 1..Len(KeyOrder)} |-> k \in S]

\* sorted(list(keys))
sorted(keys) == SelectSeq(KeyOrder, LAMBDA k : InSet(keys)[k])

\* sep.join(texts), each text one atom
RECURSIVE join(_, _)
join(sep, texts) ==
    IF Len(texts) <= 1 THEN texts
    ELSE <<Head(texts), sep>> \o join(sep, Tail(texts))

\* dict.get(key, default)
Get(tree, key, default) == IF key \in DOMAIN tree THEN tree[key] ELSE default

\* bind[bind.find(":")+1:]: find gives -1 when there is no colon, and the
\* slice is then the whole text.
AfterFirstColon(bind) ==
    IF Positions(bind, ":") = {} THEN bind
    ELSE SubSeq(bind, Lowest(Positions(bind, ":")) + 1, Len(bind))

\* "label" in bind
Contains(bind, label) == \E i \in 1..Len(bind) : bind[i] = label

\* Variant: an iteration that keeps an address once it is set.
BindStepKeepingFirst(acc, bind) ==
    [network |->
        IF Contains(bind, "network") /\ acc.network = None
        THEN Str(AfterFirstColon(bind)) ELSE acc.network,
     component |->
        IF Contains(bind, "component") /\ acc.component = None
        THEN Str(AfterFirstColon(bind)) ELSE acc.component]

\* lines 69-72: one iteration of the loop over the bind entries
BindStep(acc, bind) ==
    [network |->
        IF Contains(bind, "network")
        THEN Str(AfterFirstColon(bind)) ELSE acc.network,
     component |->
        IF Contains(bind, "component")
        THEN Str(AfterFirstColon(bind)) ELSE acc.component]

\* lines 66-72
RECURSIVE BindLoop(_, _)
BindLoop(binds, acc) ==
    IF binds = <<>> THEN acc
    ELSE BindLoop(Tail(binds), BindStep(acc, Head(binds)))

\* str.encode()
encode(text) == Bytes(text.v)

\* lines 77-81
EncodedKey(tree, key) ==
    IF Get(tree, key, None) # None THEN encode(tree[key]) ELSE None

\* lines 78 and 81: only a str has encode(); on any other value Python raises
\* AttributeError.
EncodeRaises(tree) ==
    \E key \in {"network_public_key", "network_private_key"} :
        Get(tree, key, None).t \notin {"none", "str"}

\* Variant: a missing file treated like an unreadable one.
LoadMissingRaises ==
    Raised("LocalConfigurationError",
           <<"Unable to load validator configuration file: ">>)

\* lines 43-47: the file does not exist
LoadMissing == Returned(ValidatorConfig(<<>>))

\* lines 58-97: the file was read and parsed into tree
LoadTree(tree, dir) ==
    LET invalid_keys == DOMAIN tree \ Whitelist
        binds == BindLoop(Get(tree, "bind", List(<<>>)).v,
                          [network |-> None, component |-> None])
        permissions == parse_permissions(Get(tree, "permissions", None), dir)
    IN IF invalid_keys # {}
       THEN Raised("LocalConfigurationError",
                   <<"Invalid keys in validator config: ">>
                       \o join(", ", sorted(invalid_keys)))
       ELSE IF EncodeRaises(tree) THEN Raised("AttributeError", <<>>)
       ELSE IF permissions.status # "ok" THEN permissions
       ELSE Returned(ValidatorConfig(
                [bind_network |-> binds.network,
                 bind_component |-> binds.component,
                 endpoint |-> Get(tree, "endpoint", None),
                 peering |-> Get(tree, "peering", None),
                 seeds |-> Get(tree, "seeds", None),
                 peers |-> Get(tree, "peers", None),
                 network_public_key |-> EncodedKey(tree, "network_public_key"),
                 network_private_key |-> EncodedKey(tree, "network_private_key"),
                 scheduler |-> Get(tree, "scheduler", None),
                 permissions |-> permissions.value,
                 roles |-> Get(tree, "roles", None)]))

load_toml_validator_config(file, dir) ==
    IF file.state = "missing" THEN LoadMissing
    ELSE IF file.state = "unreadable"
    THEN Raised("LocalConfigurationError",
                <<"Unable to load validator configuration file: ">>)
    ELSE LoadTree(file.tree, dir)

(***************************************************************************)
(* ValidatorConfig.to_dict and to_toml_string                              *)
(***************************************************************************)
\* lines 297-312: the fields in their fixed order, unset ones included
\* Variant: to_dict leaving out the roles field.
to_dict_without_roles(config) ==
    LET kept == SelectSeq(Fields, LAMBDA f : f # "roles")
    IN [i \in 1..Len(kept) |-> <<kept[i], config[kept[i]]>>]

to_dict(config) == [i \in 1..Len(Fields) |-> <<Fields[i], config[Fields[i]]>>]

\* What the textual form holds for a value: text, lists of text and tables
\* of text are written as they are; bytes are written as an array of
\* numbers and a compiled Policy as the text of the message, neither being
\* the text it was made from.
RenderedField(f, value) ==
    IF value.t = "bytes" THEN [t |-> "ints", v |-> value.v]
    ELSE IF f = "permissions" /\ value.t = "map"
    THEN Map([r \in DOMAIN value.v |-> "<Policy>"])
    ELSE value

\* lines 314-315: toml.dumps writes one "key = value" item per field that is
\* not None, in to_dict's order.
to_toml_string(config) ==
    LET items == to_dict(config)
        set == SelectSeq(items, LAMBDA item : item[2] # None)
    IN [i \in 1..Len(set) |-> <<set[i][1], RenderedField(set[i][1], set[i][2])>>]

\* toml.loads on those items: the tree of their keys.
TreeOfItems(items) ==
    [k \in {items[i][1] : i \in 1..Len(items)} |->
        items[CHOOSE i \in 1..Len(items) : items[i][1] = k][2]]

(***************************************************************************)
(* Sample snapshots handed to the merger.  Every value carries the name of *)
(* its field, so a value landing in another field, or two values being     *)
(* combined, is visible.                                                   *)
(***************************************************************************)
Ordinal == <<"first", "second", "third">>

SampleValue(f, n) ==
    IF n = 0 THEN None
    ELSE IF f \in {"seeds", "peers"} THEN List(<< <<f, Ordinal[n]>> >>)
    ELSE IF f \in {"network_public_key", "network_private_key"}
         THEN Bytes(<<f, Ordinal[n]>>)
    ELSE IF f = "roles" THEN Map([r \in {"network"} |-> <<f, Ordinal[n]>>])
    ELSE Str(<<f, Ordinal[n]>>)

SamplePermissions ==
    {None,
     EmptyMap,
     Map([r \in {"transactor"} |->
            Policy("policy.a", <<Entry("PERMIT_KEY", <<"abc">>)>>)]),
     Map([r \in {"network"} |->
            Policy("policy.b", <<Entry("DENY_KEY", <<"xyz">>),
                                 Entry("PERMIT_KEY", <<"abc">>)>>)])}

EvenFields == {Fields[i] : i \in {j \in 1..Len(Fields) : j % 2 = 0}}

SampleSnapshot(x, y, p) ==
    [f \in FieldSet |->
        IF f = "permissions" THEN p
        ELSE IF f \in EvenFields THEN SampleValue(f, x)
        ELSE SampleValue(f, y)]

SnapshotPool ==
    {SampleSnapshot(x, y, p) : x \in 0..2, y \in 0..1, p \in SamplePermissions}

(***************************************************************************)
(* The merger driven by a caller: the caller collects snapshots (highest   *)
(* priority first) and calls merge_validator_config once.                  *)
(***************************************************************************)
IdleFile == [state |-> "missing", tree |-> <<>>]

InitMerge ==
    /\ configs = <<>>
    /\ merged = NotRun
    /\ config_file = IdleFile
    /\ policy_dir = <<>>
    /\ loaded = NotRun
    /\ reloaded = NotRun
    /\ permissions_in = None
    /\ compiled = NotRun

AddConfig(c) ==
    /\ merged = NotRun
    /\ Len(configs) < MaxConfigs
    /\ configs' = Append(configs, c)
    /\ UNCHANGED <<merged, config_file, policy_dir, loaded, reloaded,
                   permissions_in, compiled>>

Merge ==
    /\ merged = NotRun
    /\ merged' = Returned(merge_validator_config(configs))
    /\ UNCHANGED <<configs, config_file, policy_dir, loaded, reloaded,
                   permissions_in, compiled>>

NextMerge ==
    \/ \E c \in SnapshotPool : AddConfig(c)
    \/ Merge

SpecMerge == InitMerge /\ [][NextMerge]_vars

(***************************************************************************)
(* Claims about merge_validator_config.                                    *)
(***************************************************************************)
\* The indices of the snapshots in which field f is not unset.
SettingIndices(cfgs, f) == {i \in 1..Len(cfgs) : cfgs[i][f] # None}

LowestIndex(S) == CHOOSE i \in S : \A j \in S : i <= j

\* C1: for every list of snapshots (the empty one included) and every
\* field, the merged snapshot holds exactly the value of the lowest-index
\* snapshot in which that field is not unset, and unset when no snapshot
\* sets it; the value is taken whole.
C1_FirstSetWins ==
    merged.status = "ok" =>
        \A f \in FieldSet :
            IF SettingIndices(configs, f) = {}
            THEN merged.config[f] = None
            ELSE merged.config[f] =
                    configs[LowestIndex(SettingIndices(configs, f))][f]

\* A merge of three snapshots in which the first leaves a field unset that
\* the second and third set differently, and the empty list merged.
C1_Witness ==
    /\ merged.status = "ok"
    /\ Len(configs) = 3
    /\ configs[1]["peers"] = None
    /\ configs[2]["peers"] # None
    /\ configs[3]["peers"] # None
    /\ configs[2]["peers"] # configs[3]["peers"]
    /\ configs[1]["endpoint"] # None
    /\ merged.config["peers"] = configs[2]["peers"]

\* C2: an explicitly empty permissions mapping is a set value: below an
\* unset permissions field it survives, and above a non-empty mapping it
\* clears it.
C2_EmptyPermissionsIsSet ==
    (merged.status = "ok" /\ Len(configs) = 2) =>
        /\ (configs[1]["permissions"] = None
                /\ configs[2]["permissions"] = EmptyMap)
            => merged.config["permissions"] = EmptyMap
        /\ (configs[1]["permissions"] = EmptyMap
                /\ configs[2]["permissions"] \notin {None, EmptyMap})
            => merged.config["permissions"] = EmptyMap

C2_Witness ==
    /\ merged.status = "ok"
    /\ Len(configs) = 2
    /\ configs[1]["permissions"] = None
    /\ configs[2]["permissions"] = EmptyMap
    /\ merged.config["permissions"] = EmptyMap

\* C3: merging [A, B, C] gives, field for field, what merging
\* [A, merge([B, C])] gives.
C3_Associative ==
    (merged.status = "ok" /\ Len(configs) = 3) =>
        \A f \in FieldSet :
            merged.config[f] =
                merge_validator_config(
                    <<configs[1],
                      merge_validator_config(<<configs[2], configs[3]>>)>>)[f]

\* Three snapshots mixing {} and unset permissions, the lowest one setting a
\* field the others leave unset.
C3_Witness ==
    /\ merged.status = "ok"
    /\ Len(configs) = 3
    /\ configs[1]["permissions"] = None
    /\ configs[2]["permissions"] = EmptyMap
    /\ configs[3]["permissions"] \notin {None, EmptyMap}
    /\ configs[2]["peers"] = None
    /\ configs[3]["peers"] # None
    /\ merged.config["peers"] = configs[3]["peers"]

(***************************************************************************)
(* The field extractor driven by a caller: a config file is missing,       *)
(* unreadable, or holds up to MaxKeys top-level keys; the caller loads it, *)
(* merges the snapshot over the defaults, and writes the snapshot's        *)
(* textual form back and loads that.                                       *)
(***************************************************************************)
BindEntries ==
    {<<"network", ":", "tcp", ":", "//a", ":", "8800">>,
     <<"network", ":", "tcp", ":", "//b", ":", "8800">>,
     <<"component", ":", "tcp", ":", "//a", ":", "4004">>,
     <<"component", ":", "tcp", ":", "//b", ":", "4004">>,
     <<"other", ":", "tcp", ":", "//a", ":", "9000">>,
     <<"network", ":", "component">>,
     <<"network">>}

BindLists == UNION {[1..n -> BindEntries] : n \in 0..MaxBinds}

\* The values the model writes under each key.
KeyValues(k) ==
    IF k = "bind" THEN {List(b) : b \in BindLists}
    ELSE IF k = "seeds"
    THEN {List(<<>>), List(<< <<"tcp", ":", "//seed", ":", "8800">> >>)}
    ELSE IF k = "peers"
    THEN {List(<< <<"tcp", ":", "//peer", ":", "8800">> >>)}
    ELSE IF k = "permissions"
    THEN {EmptyMap,
          Map([r \in {"transactor"} |-> "policy.a"]),
          Map([r \in {"network"} |-> "policy.b"]),
          Map([r \in {"transactor"} |-> "policy.c"])}
    ELSE IF k = "roles" THEN {Map([r \in {"network"} |-> "trust"])}
    ELSE {Str(<<k, "-value">>)}

\* policy.a is well formed, policy.b has a rule without a key, policy.c does
\* not exist.
SamplePolicyDir ==
    [n \in {"policy.a", "policy.b", "policy.c"} |->
        IF n = "policy.a"
        THEN PolicyFile(<< <<"PERMIT_KEY", " ", "abc">>,
                           <<"abc", " ", "abc">>,
                           <<"DENY_KEY", " ", "abc">> >>)
        ELSE IF n = "policy.b" THEN PolicyFile(<< <<"PERMIT_KEY">> >>)
        ELSE MissingFile]

InitLoad ==
    /\ configs = <<>>
    /\ merged = NotRun
    /\ config_file \in {[state |-> st, tree |-> <<>>] :
                            st \in {"missing", "unreadable", "ok"}}
    /\ policy_dir = SamplePolicyDir
    /\ loaded = NotRun
    /\ reloaded = NotRun
    /\ permissions_in = None
    /\ compiled = NotRun

\* The file's author adds a top-level key.
WriteKey(k, v) ==
    /\ config_file.state = "ok"
    /\ loaded = NotRun
    /\ k \notin DOMAIN config_file.tree
    /\ Cardinality(DOMAIN config_file.tree) < MaxKeys
    /\ config_file' =
            [config_file EXCEPT !.tree =
                [x \in DOMAIN config_file.tree \cup {k} |->
                    IF x = k THEN v ELSE config_file.tree[x]]]
    /\ UNCHANGED <<configs, merged, policy_dir, loaded, reloaded,
                   permissions_in, compiled>>

Load ==
    /\ loaded = NotRun
    /\ loaded' = load_toml_validator_config(config_file, policy_dir)
    /\ UNCHANGED <<configs, merged, config_file, policy_dir, reloaded,
                   permissions_in, compiled>>

\* merge_validator_config([loaded, defaults])
MergeOverDefaults ==
    /\ loaded.status = "ok"
    /\ merged = NotRun
    /\ configs' = <<loaded.config, load_default_validator_config>>
    /\ merged' = Returned(merge_validator_config(configs'))
    /\ UNCHANGED <<config_file, policy_dir, loaded, reloaded,
                   permissions_in, compiled>>

\* The snapshot's textual form is written to a file and that file loaded.
RoundTrip ==
    /\ loaded.status = "ok"
    /\ reloaded = NotRun
    /\ reloaded' =
            load_toml_validator_config(
                [state |-> "ok",
                 tree |-> TreeOfItems(to_toml_string(loaded.config))],
                policy_dir)
    /\ UNCHANGED <<configs, merged, config_file, policy_dir, loaded,
                   permissions_in, compiled>>

NextLoad ==
    \/ \E k \in {KeyOrder[i] : i \in 1..Len(KeyOrder)} :
            \E v \in KeyValues(k) : WriteKey(k, v)
    \/ Load
    \/ MergeOverDefaults
    \/ RoundTrip

SpecLoad == InitLoad /\ [][NextLoad]_vars

(***************************************************************************)
(* Claims about load_toml_validator_config.                                *)
(***************************************************************************)
\* The whitelist as the claim states it.
ClaimedWhitelist ==
    {"bind", "endpoint", "peering", "seeds", "peers", "network_public_key",
     "network_private_key", "scheduler", "permissions", "roles"}

Offending == DOMAIN config_file.tree \ ClaimedWhitelist

Rank(k) == CHOOSE i \in 1..Len(KeyOrder) : KeyOrder[i] = k

\* msg is the fixed prefix followed by every key of keys once, in sorted
\* order, with ", " between neighbours.
ListsSorted(msg, keys) ==
    LET n == Cardinality(keys)
    IN /\ Len(msg) = 2 * n
       /\ msg[1] = "Invalid keys in validator config: "
       /\ {msg[2 * i] : i \in 1..n} = keys
       /\ \A i \in 1..(n - 1) :
            /\ msg[2 * i + 1] = ", "
            /\ Rank(msg[2 * i]) < Rank(msg[2 * i + 2])

\* C4: a tree with a top-level key outside the whitelist makes the load
\* fail with one LocalConfigurationError whose message lists every
\* offending key, sorted and comma-joined, and no snapshot is returned; a
\* tree with whitelisted keys only does not raise this error.
C4_InvalidKeysRejected ==
    (loaded # NotRun /\ config_file.state = "ok") =>
        IF Offending # {}
        THEN /\ loaded.status = "error"
             /\ loaded.error = "LocalConfigurationError"
             /\ ListsSorted(loaded.message, Offending)
        ELSE ~(loaded.status = "error"
                /\ loaded.error = "LocalConfigurationError")

\* A file with two offending keys and a whitelisted one has been loaded.
C4_Witness ==
    /\ loaded.status = "error"
    /\ Cardinality(Offending) = 2
    /\ "roles" \in DOMAIN config_file.tree

\* The entries of the file's bind sequence that contain label.
Matching(label) ==
    LET binds == config_file.tree["bind"].v
    IN {i \in 1..Len(binds) : Contains(binds[i], label)}

Highest(S) == CHOOSE i \in S : \A j \in S : j <= i

BindField(label) ==
    IF label = "network" THEN "bind_network" ELSE "bind_component"

\* C5 as claimed: with several bind entries matching a label, the bind
\* address of the label is the text after the first colon of the FIRST
\* matching entry.
C5_FirstMatchWins ==
    (loaded.status = "ok" /\ "bind" \in DOMAIN config_file.tree) =>
        \A label \in {"network", "component"} :
            Matching(label) # {} =>
                loaded.config[BindField(label)] =
                    Str(AfterFirstColon(
                        config_file.tree["bind"].v[Lowest(Matching(label))]))

\* C5 as amended: the bind address of a label is the text after the first
\* colon (the whole entry when it has no colon) of the LAST matching entry
\* in scan order; earlier matching entries are overwritten.
C5_LastMatchWins ==
    (loaded.status = "ok" /\ "bind" \in DOMAIN config_file.tree) =>
        \A label \in {"network", "component"} :
            IF Matching(label) = {}
            THEN loaded.config[BindField(label)] = None
            ELSE LET bind ==
                        config_file.tree["bind"].v[Highest(Matching(label))]
                     colons == {i \in 1..Len(bind) : bind[i] = ":"}
                 IN loaded.config[BindField(label)] =
                        Str(IF colons = {} THEN bind
                            ELSE SubSeq(bind, Lowest(colons) + 1, Len(bind)))

\* A bind sequence with two network entries of different addresses has
\* been loaded.
C5_Witness ==
    /\ loaded.status = "ok"
    /\ "bind" \in DOMAIN config_file.tree
    /\ Cardinality(Matching("network")) = 2
    /\ LET binds == config_file.tree["bind"].v
       IN /\ AfterFirstColon(binds[1]) # AfterFirstColon(binds[2])
          /\ loaded.config["bind_network"] = Str(AfterFirstColon(binds[2]))

\* The keys whose values are text, lists of text or tables of text.
TextualKeys ==
    {"bind", "endpoint", "peering", "seeds", "peers", "scheduler", "roles"}

SerialisedBindKeys ==
    {f \in {"bind_network", "bind_component"} : loaded.config[f] # None}

C9_MissingFileGivesDefaults ==
    (config_file.state = "missing" /\ loaded # NotRun) =>
        /\ loaded.status = "ok"
        /\ \A f \in FieldSet : loaded.config[f] = None
        /\ merged # NotRun =>
            \A f \in FieldSet :
                merged.config[f] =
                    IF f = "bind_network"
                    THEN Str(<<"tcp", ":", "//127.0.0.1", ":", "8800">>)
                    ELSE IF f = "bind_component"
                    THEN Str(<<"tcp", ":", "//127.0.0.1", ":", "4004">>)
                    ELSE IF f = "peering" THEN Str(<<"static">>)
                    ELSE IF f = "scheduler" THEN Str(<<"serial">>)
                    ELSE None

C9_Witness ==
    /\ config_file.state = "missing"
    /\ loaded.status = "ok"
    /\ merged.status = "ok"
    /\ configs = <<loaded.config, load_default_validator_config>>

(***************************************************************************)
(* The policy compiler called on a permissions table, over a policy        *)
(* directory.  A line is a text over the atoms below in which no two words *)
(* are adjacent (two adjacent words would be one longer word).             *)
(***************************************************************************)
Words == {"PERMIT_KEY", "DENY_KEY", "abc"}
LineAtoms == Words \cup {" "}

PolicyLines ==
    {l \in UNION {[1..n -> LineAtoms] : n \in 0..MaxLineLen} :
        \A i \in 1..(Len(l) - 1) : ~(l[i] \in Words /\ l[i + 1] \in Words)}

PolicyTexts == UNION {[1..n -> PolicyLines] : n \in 0..MaxLines}

\* policy.a holds any text, policy.b is well formed, policy.c never exists.
PolicyDirs ==
    {[n \in {"policy.a", "policy.b", "policy.c"} |->
        IF n = "policy.a" THEN a ELSE IF n = "policy.b" THEN b ELSE MissingFile] :
        a \in {MissingFile} \cup {PolicyFile(t) : t \in PolicyTexts},
        b \in {MissingFile, PolicyFile(<< <<"DENY_KEY", " ", "abc">> >>)}}

PermissionTables ==
    {None,
     EmptyMap,
     Map([r \in {"transactor"} |-> "policy.a"]),
     Map([r \in {"transactor"} |-> "policy.c"]),
     Map([r \in {"transactor", "network"} |->
            IF r = "transactor" THEN "policy.a" ELSE "policy.b"]),
     Map([r \in {"transactor", "network"} |-> "policy.a"])}

InitPolicy ==
    /\ configs = <<>>
    /\ merged = NotRun
    /\ config_file = IdleFile
    /\ policy_dir \in PolicyDirs
    /\ loaded = NotRun
    /\ reloaded = NotRun
    /\ permissions_in \in PermissionTables
    /\ compiled = NotRun

ParsePermissions ==
    /\ compiled = NotRun
    /\ compiled' = parse_permissions(permissions_in, policy_dir)
    /\ UNCHANGED <<configs, merged, config_file, policy_dir, loaded, reloaded,
                   permissions_in>>

NextPolicy == ParsePermissions

SpecPolicy == InitPolicy /\ [][NextPolicy]_vars

(***************************************************************************)
(* Claims about parse_permissions.                                         *)
(***************************************************************************)
\* The whitespace-delimited tokens of a line: the non-empty runs between
\* spaces.
RECURSIVE DropEmpty(_)
DropEmpty(pieces) ==
    IF pieces = <<>> THEN <<>>
    ELSE IF Head(pieces) = <<>> THEN DropEmpty(Tail(pieces))
    ELSE <<Head(pieces)>> \o DropEmpty(Tail(pieces))

Tokens(line) == DropEmpty(split(line, " "))

IsRuleLine(line) ==
    Tokens(line) # <<>> /\ Tokens(line)[1] \in {<<"PERMIT_KEY">>, <<"DENY_KEY">>}

RuleLines(lines) == SelectSeq(lines, IsRuleLine)

\* The roles of the permissions argument whose policy file exists.
ResolvedRoles ==
    IF permissions_in = None THEN {}
    ELSE {r \in DOMAIN permissions_in.v : policy_dir[permissions_in.v[r]].exists}

\* The entries the policy of an existing file has to hold: one per line
\* whose first token is PERMIT_KEY or DENY_KEY, in line order, typed by that
\* token and keyed by the second token.
HasClaimedEntries(policy, lines) ==
    /\ Len(policy.entries) = Len(RuleLines(lines))
    /\ \A i \in 1..Len(RuleLines(lines)) :
            /\ Len(Tokens(RuleLines(lines)[i])) >= 2
            /\ policy.entries[i].type = Tokens(RuleLines(lines)[i])[1][1]
            /\ policy.entries[i].key = Tokens(RuleLines(lines)[i])[2]

\* C6: for every existing policy file the compiled Policy is named after
\* the file and holds, in line order, exactly one Entry per line whose
\* first whitespace-delimited token is PERMIT_KEY or DENY_KEY, its type
\* that token and its key the line's second whitespace-delimited token.
C6_EntriesByWhitespaceToken ==
    compiled # NotRun =>
        \A r \in ResolvedRoles :
            /\ compiled.status = "ok"
            /\ compiled.value # None
            /\ r \in DOMAIN compiled.value.v
            /\ compiled.value.v[r].name = permissions_in.v[r]
            /\ HasClaimedEntries(compiled.value.v[r],
                                 policy_dir[permissions_in.v[r]].lines)

\* C7: parse_permissions returns a mapping whose keys are exactly the roles
\* whose policy file exists, and unset (never an empty mapping) when there
\* is no such role.
C7_KeysAreResolvedRoles ==
    compiled # NotRun =>
        /\ compiled.status = "ok"
        /\ IF ResolvedRoles = {}
           THEN compiled.value = None
           ELSE /\ compiled.value # None
                /\ DOMAIN compiled.value.v = ResolvedRoles

\* C10: whatever the policy files hold, parse_permissions returns a result
\* (a mapping or unset) and raises nothing.
C10_NeverRaises == compiled # NotRun => compiled.status = "ok"

====
